---- MODULE Spec2Model ----
(***************************************************************************)
(* watchage (app.py): the Cypher query formatter (safety check, return     *)
(* clause extraction, statement composition) and the DatabaseManager       *)
(* (connect, execute_query with its result decoder, get_graph_info).       *)
(*                                                                         *)
(* Python strings are modelled as sequences of one-character strings, so   *)
(* that splitting, stripping, lower-casing, substring tests and the        *)
(* regular expressions of the source are computed character by character.  *)
(***************************************************************************)
EXTENDS Integers, Sequences, FiniteSets, TLC

VARIABLES
    pool,             \* DatabaseManager.pool
    connection_info,  \* DatabaseManager.connection_info
    op,               \* the operation whose outcome is held, "idle" between calls
    graph_name,       \* argument of the last format_query / execute_query call
    cypher_query,     \* argument of the last formatter / execute_query call
    ret,              \* outcome of the last call: a returned value or a raised error
    acquired,         \* connections taken from the pool during the last call
    sent,             \* statements sent to storage during the last call, in order
    results,          \* rows the storage handed to the decode loop in the last call
    catalog           \* ag_graph and ag_label as the storage held them in the last call

vars == <<pool, connection_info, op, graph_name, cypher_query, ret,
          acquired, sent, results, catalog>>

(***************************************************************************)
(* Bounds of the model.                                                    *)
(***************************************************************************)
MaxPieces == 3        \* a query text is the concatenation of at most this many pieces
MaxCells == 4         \* cells in one result set
MaxLabelRows == 2     \* rows of ag_label
NumGraphs == 2        \* rows of ag_graph
MaxTokens == 3        \* tokens after RETURN in a return clause

(***************************************************************************)
(* Characters and Python string primitives.                                *)
(***************************************************************************)
LowerLetters == {"a", "b", "c", "d", "e", "f", "g", "h", "i", "j", "k", "l", "m",
                 "n", "o", "p", "q", "r", "s", "t", "u", "v", "w", "x", "y", "z"}
UpperLetters == {"A", "B", "C", "D", "E", "F", "G", "H", "I", "J", "K", "L", "M",
                 "N", "O", "P", "Q", "R", "S", "T", "U", "V", "W", "X", "Y", "Z"}
Digits == {"0", "1", "2", "3", "4", "5", "6", "7", "8", "9"}
Whitespace == {" ", "\n", "\t", "\r"}

LowerMap ==
    ("A" :> "a") @@ ("B" :> "b") @@ ("C" :> "c") @@ ("D" :> "d") @@ ("E" :> "e") @@
    ("F" :> "f") @@ ("G" :> "g") @@ ("H" :> "h") @@ ("I" :> "i") @@ ("J" :> "j") @@
    ("K" :> "k") @@ ("L" :> "l") @@ ("M" :> "m") @@ ("N" :> "n") @@ ("O" :> "o") @@
    ("P" :> "p") @@ ("Q" :> "q") @@ ("R" :> "r") @@ ("S" :> "s") @@ ("T" :> "t") @@
    ("U" :> "u") @@ ("V" :> "v") @@ ("W" :> "w") @@ ("X" :> "x") @@ ("Y" :> "y") @@
    ("Z" :> "z")

\* \w of the re module
IsWord(c) == c \in LowerLetters \cup UpperLetters \cup Digits \cup {"_"}

\* \s of the re module, and the separators of str.split() / str.strip()
IsSpace(c) == c \in Whitespace

\* str.lower()
str_lower(s) == [i \in 1..Len(s) |-> IF s[i] \in UpperLetters THEN LowerMap[s[i]] ELSE s[i]]

\* sub in s
str_contains(s, sub) ==
    \E i \in 0..(Len(s) - Len(sub)) : SubSeq(s, i + 1, i + Len(sub)) = sub

\* s.endswith(suffix)
str_endswith(s, suffix) ==
    /\ Len(s) >= Len(suffix)
    /\ SubSeq(s, Len(s) - Len(suffix) + 1, Len(s)) = suffix

\* s.startswith(prefix)
str_startswith(s, prefix) ==
    /\ Len(s) >= Len(prefix)
    /\ SubSeq(s, 1, Len(prefix)) = prefix

RECURSIVE SplitWsFrom(_, _, _, _)
SplitWsFrom(s, i, cur, acc) ==
    IF i > Len(s)
    THEN IF cur = <<>> THEN acc ELSE Append(acc, cur)
    ELSE IF IsSpace(s[i])
         THEN SplitWsFrom(s, i + 1, <<>>, IF cur = <<>> THEN acc ELSE Append(acc, cur))
         ELSE SplitWsFrom(s, i + 1, Append(cur, s[i]), acc)

\* s.split(): the maximal runs of non-whitespace characters, in order
str_split(s) == SplitWsFrom(s, 1, <<>>, <<>>)

RECURSIVE SplitOnFrom(_, _, _, _, _)
SplitOnFrom(s, sep, i, cur, acc) ==
    IF i > Len(s)
    THEN Append(acc, cur)
    ELSE IF s[i] = sep
         THEN SplitOnFrom(s, sep, i + 1, <<>>, Append(acc, cur))
         ELSE SplitOnFrom(s, sep, i + 1, Append(cur, s[i]), acc)

\* s.split(sep) for a one-character separator: empty fields are kept
str_split_on(s, sep) == SplitOnFrom(s, sep, 1, <<>>, <<>>)

RECURSIVE SkipLeft(_, _, _)
\* the first index from i on whose character is not in chars, Len(s) + 1 if none
SkipLeft(s, chars, i) ==
    IF i > Len(s) THEN i
    ELSE IF s[i] \in chars THEN SkipLeft(s, chars, i + 1) ELSE i

RECURSIVE SkipRight(_, _, _)
\* the last index up to n whose character is not in chars, 0 if none
SkipRight(s, chars, n) ==
    IF n = 0 THEN 0
    ELSE IF s[n] \in chars THEN SkipRight(s, chars, n - 1) ELSE n

\* s.strip()
str_strip(s) == SubSeq(s, SkipLeft(s, Whitespace, 1), SkipRight(s, Whitespace, Len(s)))

\* s.rstrip(chars): removes every trailing character that is in the set chars
str_rstrip(s, chars) == SubSeq(s, 1, SkipRight(s, chars, Len(s)))

RECURSIVE Concat(_)
Concat(ss) == IF ss = <<>> THEN <<>> ELSE Head(ss) \o Concat(Tail(ss))

RECURSIVE str_join(_, _)
\* sep.join(ss)
str_join(sep, ss) ==
    IF ss = <<>> THEN <<>>
    ELSE IF Len(ss) = 1 THEN ss[1]
    ELSE ss[1] \o sep \o str_join(sep, Tail(ss))

(***************************************************************************)
(* Literals of the source.                                                 *)
(***************************************************************************)
unsafe_keywords ==
    { <<"c", "r", "e", "a", "t", "e">>, <<"d", "e", "l", "e", "t", "e">>,
      <<"s", "e", "t">>, <<"r", "e", "m", "o", "v", "e">>, <<"m", "e", "r", "g", "e">> }
alias_words == { <<"a", "s">>, <<"d", "i", "s", "t", "i", "n", "c", "t">> }
stop_words ==
    { <<"o", "r", "d", "e", "r">>, <<"g", "r", "o", "u", "p">>, <<"b", "y">>,
      <<"d", "e", "s", "c">>, <<"a", "s", "c">>, <<"l", "i", "m", "i", "t">>,
      <<"s", "k", "i", "p">> }
limit_word == <<"l", "i", "m", "i", "t">>
return_word == <<"r", "e", "t", "u", "r", "n">>
limit_clause == <<" ", "L", "I", "M", "I", "T", " ", "5", "0">>
stmt_head == <<"S", "E", "L", "E", "C", "T", " ", "*", " ", "F", "R", "O", "M", " ",
               "c", "y", "p", "h", "e", "r", "(", "'">>
stmt_open == <<"'", ",", " ", "$", "$", " ">>
stmt_close == <<" ", "$", "$", ")", " ", "A", "S", " ", "(">>
stmt_end == <<")", ";">>
agtype_suffix == <<" ", "a", "g", "t", "y", "p", "e">>
comma_space == <<",", " ">>
brackets == {"(", ")", "{", "}"}

ValueError(msg) == [kind |-> "raise", type |-> "ValueError", msg |-> msg]
Returned(v) == [kind |-> "return", value |-> v]

(***************************************************************************)
(* CypherQueryFormatter                                                    *)
(***************************************************************************)
\* A plausible slip: the keyword is searched as a substring of the lowered query
is_safe_cypher_query_substring(query) ==
    \A k \in unsafe_keywords : ~str_contains(str_lower(query), k)

is_safe_cypher_query(query) ==
    LET tokens == str_split(query)
    IN  \A i \in 1..Len(tokens) : str_lower(tokens[i]) \notin unsafe_keywords

\* re.search(r"(?i)(?<=\breturn\b)(.*)$", s) succeeds with the match starting
\* right after s[p]: the six characters up to p spell "return" in any case, with
\* a word boundary on both sides, and "." (no newline) reaches "$" (the end of
\* the text, or the position before a final newline).
ReturnMatchAt(s, p) ==
    /\ p >= 6
    /\ str_lower(SubSeq(s, p - 5, p)) = return_word
    /\ (p = 6 \/ ~IsWord(s[p - 6]))
    /\ (p = Len(s) \/ ~IsWord(s[p + 1]))
    /\ \A i \in (p + 1)..Len(s) : s[i] = "\n" => i = Len(s)

\* match.group(1) as a sequence of at most one element: <<>> when re.search
\* returns None, else <<the text of the group>> for the leftmost match
return_span(s) ==
    LET ps == {p \in 0..Len(s) : ReturnMatchAt(s, p)}
    IN  IF ps = {} THEN <<>>
        ELSE LET p == CHOOSE x \in ps : \A y \in ps : x <= y
                 last == IF Len(s) > p /\ s[Len(s)] = "\n" THEN Len(s) - 1 ELSE Len(s)
             IN  <<SubSeq(s, p + 1, last)>>

RECURSIVE scan_tokens_alias_first(_, _, _, _)
\* A plausible slip: the alias flag is looked at before the stop words
scan_tokens_alias_first(tokens, i, next_is_alias, return_value) ==
    IF i > Len(tokens) THEN return_value
    ELSE LET token == tokens[i]
             token_lower == str_lower(token)
         IN  IF token_lower \in alias_words
             THEN scan_tokens_alias_first(tokens, i + 1, TRUE, return_value)
             ELSE IF next_is_alias THEN token
             ELSE IF token_lower \in stop_words THEN return_value
             ELSE IF token = <<"=">> THEN return_value
             ELSE scan_tokens_alias_first(tokens, i + 1, next_is_alias, token)

RECURSIVE scan_tokens(_, _, _, _)
\* the inner loop over the tokens of one return part
scan_tokens(tokens, i, next_is_alias, return_value) ==
    IF i > Len(tokens) THEN return_value
    ELSE LET token == tokens[i]
             token_lower == str_lower(token)
         IN  IF token_lower \in alias_words
             THEN scan_tokens(tokens, i + 1, TRUE, return_value)
             ELSE IF token_lower \in stop_words THEN return_value
             ELSE IF token = <<"=">> THEN return_value
             ELSE IF next_is_alias THEN token
             ELSE scan_tokens(tokens, i + 1, next_is_alias, token)

\* pattern.match(v) for ([A-Za-z0-9_]\w*)\s*(?=\(): the length of group(1), or 0
\* when there is no match
call_prefix_len(v) ==
    LET n == SkipLeft(v, LowerLetters \cup UpperLetters \cup Digits \cup {"_"}, 1) - 1
        k == SkipLeft(v, Whitespace, n + 1)
    IN  IF n >= 1 /\ k <= Len(v) /\ v[k] = "(" THEN n ELSE 0

\* num_pattern.match(v) for ^[0-9\.]+$
is_number(v) == v # <<>> /\ \A i \in 1..Len(v) : v[i] \in Digits \cup {"."}

\* the post-processing of one candidate name: <<>> when it is discarded, else
\* <<the name appended to return_values>>
post_process(return_value) ==
    LET n == call_prefix_len(return_value)
        v1 == IF n > 0 THEN SubSeq(return_value, 1, n) ELSE return_value
        v2 == IF is_number(v1) THEN v1 ELSE str_split_on(v1, ".")[1]
    IN  IF \E i \in 1..Len(v2) : v2[i] \in brackets THEN <<>> ELSE <<v2>>

RECURSIVE collect_parts(_, _)
collect_parts(parts, i) ==
    IF i > Len(parts) THEN <<>>
    ELSE post_process(scan_tokens(str_split(parts[i]), 1, FALSE, <<>>))
         \o collect_parts(parts, i + 1)

extract_return_values(query) ==
    LET m == return_span(query)
        raw == IF m = <<>> THEN <<>> ELSE str_split_on(str_strip(m[1]), ",")
        return_parts == [i \in 1..Len(raw) |-> str_strip(raw[i])]
    IN  collect_parts(return_parts, 1)

\* re.findall(r"\$(\w+)", s) is not empty
has_placeholder(s) == \E i \in 1..(Len(s) - 1) : s[i] = "$" /\ IsWord(s[i + 1])

\* A plausible slip: the substring test is made on the text as written, not lowered
append_limit_case_sensitive(query) ==
    IF ~str_contains(query, limit_word) THEN query \o limit_clause ELSE query

\* "Append LIMIT 50 if no limit is specified."
append_limit(query) ==
    IF ~str_contains(str_lower(query), limit_word) THEN query \o limit_clause ELSE query

\* the f-string of the return statement
compose(graph, query, returns) ==
    stmt_head \o graph \o stmt_open \o query \o stmt_close
    \o str_join(comma_space, [i \in 1..Len(returns) |-> returns[i] \o agtype_suffix])
    \o stmt_end

\* A plausible slip: the return values are checked before the placeholder scan
format_query_returns_first(graph, query) ==
    IF ~is_safe_cypher_query(query) THEN ValueError("Unsafe query")
    ELSE LET q == append_limit(query)
             returns == extract_return_values(q)
         IN  IF returns = <<>> THEN ValueError("No return values specified")
             ELSE IF has_placeholder(q) THEN ValueError("Parameterized query")
             ELSE Returned(compose(graph, q, returns))

\* A plausible slip: the statement is composed whatever the return values are
format_query_no_return_check(graph, query) ==
    IF ~is_safe_cypher_query(query) THEN ValueError("Unsafe query")
    ELSE LET q == append_limit(query)
             returns == extract_return_values(q)
         IN  IF has_placeholder(q) THEN ValueError("Parameterized query")
             ELSE Returned(compose(graph, q, returns))

\* A plausible slip: the placeholder scan is left out
format_query_no_placeholder_scan(graph, query) ==
    IF ~is_safe_cypher_query(query) THEN ValueError("Unsafe query")
    ELSE LET q == append_limit(query)
             returns == extract_return_values(q)
         IN  IF returns # <<>> THEN Returned(compose(graph, q, returns))
             ELSE ValueError("No return values specified")

format_query(graph, query) ==
    IF ~is_safe_cypher_query(query) THEN ValueError("Unsafe query")
    ELSE LET q == append_limit(query)
             returns == extract_return_values(q)
         IN  IF has_placeholder(q) THEN ValueError("Parameterized query")
             ELSE IF returns # <<>> THEN Returned(compose(graph, q, returns))
             ELSE ValueError("No return values specified")

(***************************************************************************)
(* Inputs of the formatter: query texts built from pieces of Cypher text.  *)
(***************************************************************************)
P_Match == <<"M", "A", "T", "C", "H", " ", "(", "n", ")", " ">>
P_ReturnN == <<"R", "E", "T", "U", "R", "N", " ", "n">>
P_return == <<"r", "e", "t", "u", "r", "n", " ">>
P_Alias == <<",", " ", "n", ".", "n", "a", "m", "e", " ", "A", "S", " ", "n", "a", "m", "e">>
P_Limit == <<" ", "L", "I", "M", "I", "T", " ", "5">>
P_Delete == <<"D", "E", "L", "E", "T", "E", " ", "n", " ">>
P_Param == <<"$", "i", "d">>
P_NRemove == <<"n", ".", "r", "e", "m", "o", "v", "e">>
P_Unlimited == <<".", "u", "n", "l", "i", "m", "i", "t", "e", "d">>
P_Newline == <<"\n">>
P_Paren == <<"(", "n", ")">>
P_Set == <<" ", "s", "e", "t">>
P_Dollar == <<"$">>

Pieces == {P_Match, P_ReturnN, P_return, P_Alias, P_Limit, P_Delete, P_Param,
           P_NRemove, P_Unlimited, P_Newline, P_Paren, P_Set, P_Dollar}

Queries == {Concat(ps) : ps \in UNION {[1..n -> Pieces] : n \in 0..MaxPieces}}

G_graph1 == <<"g", "r", "a", "p", "h", "1">>
G_dollar == <<"g", "$", "1">>
GraphNames == {G_graph1, G_dollar}

(***************************************************************************)
(* State                                                                   *)
(***************************************************************************)
None == "None"
NoCall == [kind |-> "none"]
NoPool == [present |-> FALSE]
EmptyDict == [k \in {} |-> ""]
NoCatalog == [ag_graph |-> <<>>, ag_label |-> <<>>]

\* One call of a static method of CypherQueryFormatter on a query text
InitFormat ==
    /\ pool = NoPool
    /\ connection_info = EmptyDict
    /\ op = "idle"
    /\ graph_name = <<>>
    /\ cypher_query \in Queries
    /\ ret = NoCall
    /\ acquired = 0
    /\ sent = <<>>
    /\ results = <<>>
    /\ catalog = NoCatalog

IsSafeCypherQuery ==
    /\ op = "idle"
    /\ op' = "is_safe_cypher_query"
    /\ ret' = Returned(is_safe_cypher_query(cypher_query))
    /\ UNCHANGED <<pool, connection_info, graph_name, cypher_query, acquired, sent,
                   results, catalog>>

ExtractReturnValues ==
    /\ op = "idle"
    /\ op' = "extract_return_values"
    /\ ret' = Returned(extract_return_values(cypher_query))
    /\ UNCHANGED <<pool, connection_info, graph_name, cypher_query, acquired, sent,
                   results, catalog>>

FormatQuery ==
    /\ op = "idle"
    /\ \E g \in GraphNames :
        /\ graph_name' = g
        /\ ret' = format_query(g, cypher_query)
    /\ op' = "format_query"
    /\ UNCHANGED <<pool, connection_info, cypher_query, acquired, sent, results, catalog>>

NextFormat == IsSafeCypherQuery \/ ExtractReturnValues \/ FormatQuery

SpecFormat == InitFormat /\ [][NextFormat]_vars

(***************************************************************************)
(* Inputs of the token scan: return clauses built from tokens.             *)
(***************************************************************************)
T_n == <<"n">>
T_n_name == <<"n", ".", "n", "a", "m", "e">>
T_AS == <<"A", "S">>
T_distinct == <<"d", "i", "s", "t", "i", "n", "c", "t">>
T_order == <<"o", "r", "d", "e", "r">>
T_LIMIT == <<"L", "I", "M", "I", "T">>
T_eq == <<"=">>
T_name == <<"n", "a", "m", "e">>
T_comma == <<",">>
T_count == <<"c", "o", "u", "n", "t", "(", "n", ")">>

Tokens == {T_n, T_n_name, T_AS, T_distinct, T_order, T_LIMIT,
           T_eq, T_name, T_comma, T_count}

RETURN_head == <<"R", "E", "T", "U", "R", "N">>

\* "RETURN" followed by at most MaxTokens tokens, each after one space
ReturnClauses ==
    {RETURN_head \o Concat([i \in 1..Len(ts) |-> <<" ">> \o ts[i]]) :
        ts \in UNION {[1..n -> Tokens] : n \in 0..MaxTokens}}

\* One call of a static method of CypherQueryFormatter on a return clause
InitExtract ==
    /\ pool = NoPool
    /\ connection_info = EmptyDict
    /\ op = "idle"
    /\ graph_name = <<>>
    /\ cypher_query \in ReturnClauses
    /\ ret = NoCall
    /\ acquired = 0
    /\ sent = <<>>
    /\ results = <<>>
    /\ catalog = NoCatalog

SpecExtract == InitExtract /\ [][NextFormat]_vars

(***************************************************************************)
(* The storage collaborator, as DatabaseManager sees it.                   *)
(***************************************************************************)
vertex_suffix == <<":", ":", "v", "e", "r", "t", "e", "x">>
edge_suffix == <<":", ":", "e", "d", "g", "e">>

\* texts of agtype payloads
J_Node1 ==
    <<"{", "\"", "i", "d", "\"", ":", "\"", "n", "1", "\"", ",", "\"", "l", "a", "b", "e", "l", "\"", ":", "\"", "A", "\"", ",", "\"", "p", "r", "o", "p", "e", "r", "t", "i", "e", "s", "\"", ":", "{", "}", "}">>
J_Node2 ==
    <<"{", "\"", "i", "d", "\"", ":", "\"", "n", "2", "\"", "}">>
J_Edge1 ==
    <<"{", "\"", "i", "d", "\"", ":", "\"", "e", "1", "\"", ",", "\"", "l", "a", "b", "e", "l", "\"", ":", "\"", "R", "\"", ",", "\"", "s", "t", "a", "r", "t", "_", "i", "d", "\"", ":", "\"", "n", "1", "\"", ",", "\"", "e", "n", "d", "_", "i", "d", "\"", ":", "\"", "n", "2", "\"", "}">>
J_Five ==
    <<"5">>
J_Cut ==
    <<"{", "\"", "i", "d", "\"", ":">>

\* json.loads on the payload texts of the model: the texts that are JSON
\* documents, each with its parsed value; every other text raises JSONDecodeError
JsonDocuments ==
    { [text |-> J_Node1,
       value |-> [type |-> "dict", d |-> [id |-> "n1", label |-> "A", properties |-> "{}"]]],
      [text |-> J_Node2,
       value |-> [type |-> "dict", d |-> [id |-> "n2"]]],
      [text |-> J_Edge1,
       value |-> [type |-> "dict",
                  d |-> [id |-> "e1", label |-> "R", start_id |-> "n1", end_id |-> "n2"]]],
      [text |-> J_Five, value |-> [type |-> "int", d |-> EmptyDict]] }

json_loads(text) ==
    IF \E doc \in JsonDocuments : doc.text = text
    THEN [ok |-> TRUE, value |-> (CHOOSE doc \in JsonDocuments : doc.text = text).value]
    ELSE [ok |-> FALSE]

\* d.get(key): None when the key is absent
dict_get(d, key) == IF key \in DOMAIN d THEN d[key] ELSE None

\* d.get(key, default)
dict_get_default(d, key, default) == IF key \in DOMAIN d THEN d[key] ELSE default

\* cells a result row may hold
Cells == { J_Node1 \o vertex_suffix, J_Node2 \o vertex_suffix, J_Edge1 \o edge_suffix,
           J_Five \o vertex_suffix, J_Cut \o vertex_suffix, J_Node2 \o <<"x">> \o vertex_suffix,
           J_Five }

\* result sets of a statement that declares `width` columns
RowSets(width) ==
    UNION {[1..n -> [1..width -> Cells]] : n \in {k \in 0..MaxCells : k * width <= MaxCells}}

\* what the storage does with one statement of execute_query
StorageResponses(width) ==
    {[execute |-> "error", fetchall |-> "error", rows |-> <<>>],
     [execute |-> "ok", fetchall |-> "error", rows |-> <<>>]}
    \cup {[execute |-> "ok", fetchall |-> "ok", rows |-> r] : r \in RowSets(width)}

\* rows of ag_label are drawn from these labels
Labels ==
    { [name |-> <<"P", "e", "r", "s", "o", "n">>, kind |-> "v", relation |-> "g.Person"],
      [name |-> <<"G", "h", "o", "s", "t">>, kind |-> "v", relation |-> "g.Ghost"],
      [name |-> <<"K", "N", "O", "W", "S">>, kind |-> "e", relation |-> "g.KNOWS"],
      [name |-> <<"L", "O", "S", "T">>, kind |-> "e", relation |-> "g.LOST"],
      [name |-> <<"_", "a", "g", "_", "l", "a", "b", "e", "l", "_", "v", "e", "r", "t", "e", "x">>,
       kind |-> "v", relation |-> "g._ag_label_vertex"] }

\* the relations that can be counted, with the count the storage returns; the
\* count of any other relation fails
RowCounts == ("g.Person" :> "10") @@ ("g.KNOWS" :> "5") @@ ("g._ag_label_vertex" :> "3")

Catalogs ==
    UNION { { [ag_graph |-> [g \in 1..n |-> [graphid |-> g, name |-> g, namespace |-> g]],
               ag_label |-> ls] :
              ls \in UNION {[1..m -> [label : Labels, graph : 1..n]] : m \in 0..MaxLabelRows} } :
            n \in 0..NumGraphs }

ConnInfos == { [host |-> "db1", dbname |-> "age"],
               [host |-> "db2", port |-> "5433", dbname |-> "age", user |-> "u",
                password |-> "p"] }

(***************************************************************************)
(* DatabaseManager                                                         *)
(***************************************************************************)
Raise(type) == [kind |-> "raise", type |-> type, msg |-> ""]
NotConnected == ValueError("No database connection. Please connect first.")

\* the connection string of connect()
conn_str(info) ==
    [host |-> dict_get_default(info, "host", "localhost"),
     port |-> dict_get_default(info, "port", "5432"),
     dbname |-> dict_get_default(info, "dbname", ""),
     user |-> dict_get_default(info, "user", ""),
     password |-> dict_get_default(info, "password", ""),
     options |-> "-c search_path=ag_catalog,\"$user\",public"]

\* connect(connection_info) on a server that is reachable or not: the new
\* fields of the manager and the outcome of the call
connect(self_pool, self_info, info, reachable) ==
    LET new_pool == [present |-> TRUE, conninfo |-> conn_str(info), up |-> reachable]
    IN  IF reachable
        THEN [pool |-> new_pool, connection_info |-> info, ret |-> Returned(None),
              acquired |-> 1, sent |-> <<[sql |-> "SELECT 1;"]>>]
        ELSE [pool |-> new_pool, connection_info |-> self_info,
              ret |-> Raise("PoolTimeout"), acquired |-> 0, sent |-> <<>>]

\* A plausible slip: the ends of an edge are taken the other way round
decode_item_swapped(item) ==
    IF str_endswith(item, vertex_suffix)
    THEN LET doc == json_loads(str_rstrip(item, {":", "v", "e", "r", "t", "x"}))
         IN  IF ~doc.ok THEN [kind |-> "skip"]
             ELSE IF doc.value.type # "dict" THEN Raise("AttributeError")
             ELSE [kind |-> "node",
                   item |-> [id |-> dict_get(doc.value.d, "id"),
                             label |-> dict_get(doc.value.d, "label"),
                             properties |-> dict_get(doc.value.d, "properties")]]
    ELSE IF str_endswith(item, edge_suffix)
    THEN LET doc == json_loads(str_rstrip(item, {":", "e", "d", "g"}))
         IN  IF ~doc.ok THEN [kind |-> "skip"]
             ELSE IF doc.value.type # "dict" THEN Raise("AttributeError")
             ELSE [kind |-> "edge",
                   item |-> [id |-> dict_get(doc.value.d, "id"),
                             label |-> dict_get(doc.value.d, "label"),
                             source |-> dict_get(doc.value.d, "end_id"),
                             target |-> dict_get(doc.value.d, "start_id"),
                             properties |-> dict_get(doc.value.d, "properties")]]
    ELSE [kind |-> "ignore"]

\* the body of the decode loop for one cell: a node or an edge to append, a
\* cell skipped after JSONDecodeError, a cell without suffix, or the
\* AttributeError of .get on a parsed value that is no dict
decode_item(item) ==
    IF str_endswith(item, vertex_suffix)
    THEN LET doc == json_loads(str_rstrip(item, {":", "v", "e", "r", "t", "x"}))
         IN  IF ~doc.ok THEN [kind |-> "skip"]
             ELSE IF doc.value.type # "dict" THEN Raise("AttributeError")
             ELSE [kind |-> "node",
                   item |-> [id |-> dict_get(doc.value.d, "id"),
                             label |-> dict_get(doc.value.d, "label"),
                             properties |-> dict_get(doc.value.d, "properties")]]
    ELSE IF str_endswith(item, edge_suffix)
    THEN LET doc == json_loads(str_rstrip(item, {":", "e", "d", "g"}))
         IN  IF ~doc.ok THEN [kind |-> "skip"]
             ELSE IF doc.value.type # "dict" THEN Raise("AttributeError")
             ELSE [kind |-> "edge",
                   item |-> [id |-> dict_get(doc.value.d, "id"),
                             label |-> dict_get(doc.value.d, "label"),
                             source |-> dict_get(doc.value.d, "start_id"),
                             target |-> dict_get(doc.value.d, "end_id"),
                             properties |-> dict_get(doc.value.d, "properties")]]
    ELSE [kind |-> "ignore"]

RECURSIVE decode_from(_, _, _, _)
\* the decode loop over the cells in row, then column, order
decode_from(cells, i, nodes, edges) ==
    IF i > Len(cells) THEN Returned([nodes |-> nodes, edges |-> edges])
    ELSE LET r == decode_item(cells[i])
         IN  IF r.kind = "raise" THEN r
             ELSE IF r.kind = "node" THEN decode_from(cells, i + 1, Append(nodes, r.item), edges)
             ELSE IF r.kind = "edge" THEN decode_from(cells, i + 1, nodes, Append(edges, r.item))
             ELSE decode_from(cells, i + 1, nodes, edges)

decode(rows) == decode_from(Concat(rows), 1, <<>>, <<>>)

\* A plausible slip: the statement is sent before the connection state is checked
run_query_send_first(self_pool, fq, db) ==
    IF fq.kind = "raise"
    THEN [ret |-> fq, acquired |-> 0, sent |-> <<>>, results |-> <<>>]
    ELSE IF ~self_pool.present
    THEN [ret |-> NotConnected, acquired |-> 1, sent |-> <<[sql |-> fq.value]>>,
          results |-> <<>>]
    ELSE [ret |-> decode(db.rows), acquired |-> 1, sent |-> <<[sql |-> fq.value]>>,
          results |-> db.rows]

\* the body of execute_query, fq being the outcome of
\* CypherQueryFormatter.format_query(graph_name, cypher_query) (evaluated only
\* when the pool is there) and db the answer of the storage
run_query(self_pool, fq, db) ==
    IF ~self_pool.present
    THEN [ret |-> NotConnected, acquired |-> 0, sent |-> <<>>, results |-> <<>>]
    ELSE IF fq.kind = "raise"
    THEN [ret |-> fq, acquired |-> 0, sent |-> <<>>, results |-> <<>>]
    ELSE IF ~self_pool.up
    THEN [ret |-> Raise("PoolTimeout"), acquired |-> 0, sent |-> <<>>, results |-> <<>>]
    ELSE IF db.execute = "error"
    THEN [ret |-> Raise("ExecutionError"), acquired |-> 1,
          sent |-> <<[sql |-> fq.value]>>, results |-> <<>>]
    ELSE LET rows == IF db.fetchall = "error" THEN <<>> ELSE db.rows
         IN  [ret |-> decode(rows), acquired |-> 1,
              sent |-> <<[sql |-> fq.value]>>, results |-> rows]

\* execute_query(graph_name, cypher_query) against a storage that answers db
execute_query(self_pool, graph, query, db) ==
    run_query(self_pool, format_query(graph, query), db)

\* cur.execute(count_query); cur.fetchone()[0], or None after the except clause
count_or_none(relation) ==
    IF relation \in DOMAIN RowCounts THEN RowCounts[relation] ELSE None

\* A plausible slip: a label whose count failed is left out of the summaries
label_summaries_drop_uncounted(labels, kind) ==
    LET shown == SelectSeq(labels, LAMBDA l :
                     /\ ~str_startswith(l.name, <<"_">>)
                     /\ l.kind = kind
                     /\ l.relation \in DOMAIN RowCounts)
    IN  [i \in 1..Len(shown) |->
            [name |-> shown[i].name, relation |-> shown[i].relation,
             count |-> count_or_none(shown[i].relation)]]

\* the nodes (kind "v") or edges (kind "e") list built by the loop over labels
label_summaries(labels, kind) ==
    LET shown == SelectSeq(labels, LAMBDA l : ~str_startswith(l.name, <<"_">>) /\ l.kind = kind)
    IN  [i \in 1..Len(shown) |->
            [name |-> shown[i].name, relation |-> shown[i].relation,
             count |-> count_or_none(shown[i].relation)]]

\* the statements the loop over labels sends: one count per label that is shown
count_statements(labels) ==
    LET counted == SelectSeq(labels, LAMBDA l : ~str_startswith(l.name, <<"_">>))
    IN  [i \in 1..Len(counted) |-> [sql |-> "SELECT COUNT(*) FROM", relation |-> counted[i].relation]]

\* the rows of "SELECT name, kind, relation FROM ag_label WHERE graph = %s"
labels_of(cat, graphid) ==
    LET rows == SelectSeq(cat.ag_label, LAMBDA r : r.graph = graphid)
    IN  [i \in 1..Len(rows) |-> rows[i].label]

\* get_graph_info() against a storage that holds the catalog cat
get_graph_info(self_pool, cat) ==
    IF ~self_pool.present
    THEN [ret |-> NotConnected, acquired |-> 0, sent |-> <<>>]
    ELSE IF ~self_pool.up
    THEN [ret |-> Raise("PoolTimeout"), acquired |-> 0, sent |-> <<>>]
    ELSE [ret |-> Returned(
                    [i \in 1..Len(cat.ag_graph) |->
                        [graphid |-> cat.ag_graph[i].graphid,
                         graph_name |-> cat.ag_graph[i].name,
                         namespace |-> cat.ag_graph[i].namespace,
                         nodes |-> label_summaries(labels_of(cat, cat.ag_graph[i].graphid), "v"),
                         edges |-> label_summaries(labels_of(cat, cat.ag_graph[i].graphid), "e")]]),
          acquired |-> 1,
          sent |-> <<[sql |-> "SELECT graphid, name, namespace FROM ag_graph;"]>>
                   \o Concat([i \in 1..Len(cat.ag_graph) |->
                        <<[sql |-> "SELECT name, kind, relation FROM ag_label WHERE graph = %s;",
                           graph |-> cat.ag_graph[i].graphid]>>
                        \o count_statements(labels_of(cat, cat.ag_graph[i].graphid))])]

\* the queries sent through execute_query
ExecQueries ==
    { Concat(<<P_Match, P_ReturnN>>),
      Concat(<<P_Match, P_ReturnN, P_Alias>>),
      Concat(<<P_Match, P_Delete, P_ReturnN>>),
      Concat(<<P_Match, P_Param>>),
      P_Match }

\* the number of columns a composed statement declares
Width(fq, query) ==
    IF fq.kind = "return" THEN Len(extract_return_values(append_limit(query))) ELSE 0

Init ==
    /\ pool = NoPool
    /\ connection_info = EmptyDict
    /\ op = "idle"
    /\ graph_name = <<>>
    /\ cypher_query = <<>>
    /\ ret = NoCall
    /\ acquired = 0
    /\ sent = <<>>
    /\ results = <<>>
    /\ catalog = NoCatalog

\* POST /api/connect
Connect ==
    /\ op = "idle"
    /\ \E info \in ConnInfos, reachable \in BOOLEAN :
        \E r \in {connect(pool, connection_info, info, reachable)} :
            /\ pool' = r.pool
            /\ connection_info' = r.connection_info
            /\ ret' = r.ret
            /\ acquired' = r.acquired
            /\ sent' = r.sent
    /\ op' = "connect"
    /\ UNCHANGED <<graph_name, cypher_query, results, catalog>>

\* POST /api/execute_query
ExecuteQuery ==
    /\ op = "idle"
    /\ \E g \in GraphNames, q \in ExecQueries :
        \E fq \in {format_query(g, q)} :
            \E db \in IF pool.present /\ pool.up
                      THEN StorageResponses(Width(fq, q))
                      ELSE {[execute |-> "error", fetchall |-> "error", rows |-> <<>>]} :
                \E r \in {run_query(pool, fq, db)} :
                    /\ graph_name' = g
                    /\ cypher_query' = q
                    /\ ret' = r.ret
                    /\ acquired' = r.acquired
                    /\ sent' = r.sent
                    /\ results' = r.results
    /\ op' = "execute_query"
    /\ UNCHANGED <<pool, connection_info, catalog>>

\* GET /api/graph_info
GetGraphInfo ==
    /\ op = "idle"
    /\ \E cat \in IF pool.present /\ pool.up THEN Catalogs ELSE {NoCatalog} :
        \E r \in {get_graph_info(pool, cat)} :
            /\ catalog' = cat
            /\ ret' = r.ret
            /\ acquired' = r.acquired
            /\ sent' = r.sent
    /\ op' = "get_graph_info"
    /\ UNCHANGED <<pool, connection_info, graph_name, cypher_query, results>>

\* GET /api/connection_status
ConnectionStatus ==
    /\ op = "idle"
    /\ op' = "connection_status"
    /\ ret' = Returned([status |-> IF pool.present THEN "connected" ELSE "disconnected",
                        connection_info |-> connection_info])
    /\ UNCHANGED <<pool, connection_info, graph_name, cypher_query, acquired, sent,
                   results, catalog>>

\* the endpoint hands the outcome to its caller; the manager keeps its fields
Deliver ==
    /\ op # "idle"
    /\ op' = "idle"
    /\ graph_name' = <<>>
    /\ cypher_query' = <<>>
    /\ ret' = NoCall
    /\ acquired' = 0
    /\ sent' = <<>>
    /\ results' = <<>>
    /\ catalog' = NoCatalog
    /\ UNCHANGED <<pool, connection_info>>

Next == Connect \/ ExecuteQuery \/ GetGraphInfo \/ ConnectionStatus \/ Deliver

Spec == Init /\ [][Next]_vars

(***************************************************************************)
(* Vocabulary of the properties, stated on the texts themselves.           *)
(***************************************************************************)
\* some maximal run of non-whitespace characters of q is, lowered, a denylisted keyword
HasUnsafeToken(q) ==
    \E i \in 1..Len(q) : \E j \in i..Len(q) :
        /\ \A k \in i..j : q[k] \notin Whitespace
        /\ (i = 1 \/ q[i - 1] \in Whitespace)
        /\ (j = Len(q) \/ q[j + 1] \in Whitespace)
        /\ str_lower(SubSeq(q, i, j)) \in unsafe_keywords

\* a keyword occurs in q, in any case, inside a larger token or as a token
HasKeywordSubstring(q) == \E k \in unsafe_keywords : str_contains(str_lower(q), k)

\* a "$" immediately followed by a word character
ContainsDollarWord(s) ==
    \E i \in 1..Len(s) : s[i] = "$" /\ i < Len(s) /\ IsWord(s[i + 1])

\* the whole word "return", in any letter case
HasReturnWord(q) ==
    \E i \in 1..(Len(q) - 5) :
        /\ str_lower(SubSeq(q, i, i + 5)) = return_word
        /\ (i = 1 \/ ~IsWord(q[i - 1]))
        /\ (i + 5 = Len(q) \/ ~IsWord(q[i + 6]))

\* the substring "limit", in any letter case
ContainsLimit(q) == str_contains(str_lower(q), limit_word)

\* the query text embedded in a composed statement: what stands between the
\* first "$$ " and the last " $$) AS ("
EmbeddedQuery(stmt) ==
    LET opens == {i \in 1..(Len(stmt) - 2) : SubSeq(stmt, i, i + 2) = <<"$", "$", " ">>}
        closes == {i \in 1..(Len(stmt) - Len(stmt_close) + 1) :
                      SubSeq(stmt, i, i + Len(stmt_close) - 1) = stmt_close}
        first == CHOOSE i \in opens : \A j \in opens : i <= j
        last == CHOOSE i \in closes : \A j \in closes : j <= i
    IN  SubSeq(stmt, first + 3, last - 1)

\* the number of whole tokens of s that are the keyword limit, in any case
LimitTokenCount(s) ==
    LET tokens == str_split(s)
    IN  Cardinality({i \in 1..Len(tokens) : str_lower(tokens[i]) = limit_word})

Accepted == op = "format_query" /\ ret.kind = "return"
Rejected(msg) == op = "format_query" /\ ret = ValueError(msg)

(***************************************************************************)
(* Properties of CypherQueryFormatter, checked under SpecFormat.           *)
(***************************************************************************)

\* C1: is_safe_cypher_query returns False, and format_query rejects with
\* "Unsafe query", exactly when some whitespace-separated token of the query is,
\* compared case-insensitively as a whole token, one of create, delete, set,
\* remove, merge; a keyword inside a larger token does not cause rejection.
C1_UnsafeExactlyOnWholeToken ==
    /\ op = "is_safe_cypher_query" => (ret.value = FALSE <=> HasUnsafeToken(cypher_query))
    /\ op = "format_query" => (ret = ValueError("Unsafe query") <=> HasUnsafeToken(cypher_query))

\* a query holding a keyword only inside a larger token was composed
C1_Witness ==
    /\ Accepted
    /\ HasKeywordSubstring(cypher_query)
    /\ ~HasUnsafeToken(cypher_query)

\* C2 as stated: every query with a "$" followed by a word character is
\* rejected with "Parameterized query", whatever else it contains.
C2_Original ==
    (op = "format_query" /\ ContainsDollarWord(cypher_query))
        => ret = ValueError("Parameterized query")

\* C2 amended: every query that passes the safety check and has a "$" followed
\* by a word character is rejected with "Parameterized query", whether or not
\* its return clause yields identifiers; with a denylisted token the reason is
\* "Unsafe query".
C2_ParameterizedWhenSafe ==
    (op = "format_query" /\ ContainsDollarWord(cypher_query))
        => ret = IF HasUnsafeToken(cypher_query)
                 THEN ValueError("Unsafe query")
                 ELSE ValueError("Parameterized query")

\* a safe query with a placeholder and no return identifiers was rejected as parameterized
C2_Witness ==
    /\ Rejected("Parameterized query")
    /\ ContainsDollarWord(cypher_query)
    /\ ~HasReturnWord(cypher_query)

\* C3 as stated: a safe query whose (limit-appended) text yields zero return
\* identifiers is rejected with "No return values specified", also when it
\* holds a "$" placeholder.
C3_Original ==
    (/\ op = "format_query"
     /\ ~HasUnsafeToken(cypher_query)
     /\ extract_return_values(append_limit(cypher_query)) = <<>>)
        => ret = ValueError("No return values specified")

\* C3 amended: a safe query without "$" placeholder whose (limit-appended) text
\* yields zero return identifiers, in particular one without the whole word
\* RETURN, is rejected with "No return values specified"; with a placeholder
\* the reason is "Parameterized query", because the placeholder scan comes first.
C3_NoReturnValuesWhenNoPlaceholder ==
    (/\ op = "format_query"
     /\ ~HasUnsafeToken(cypher_query)
     /\ \/ extract_return_values(append_limit(cypher_query)) = <<>>
        \/ ~HasReturnWord(cypher_query))
        => ret = IF ContainsDollarWord(cypher_query)
                 THEN ValueError("Parameterized query")
                 ELSE ValueError("No return values specified")

\* a query that has the word RETURN but yields no identifier was rejected
C3_Witness ==
    /\ Rejected("No return values specified")
    /\ HasReturnWord(cypher_query)

\* C4: in every composed statement the embedded query text is the original text
\* followed by " LIMIT 50" when the original lacks the substring limit (any
\* case), and the original text unchanged when it holds that substring.
C4_LimitAppendedIffAbsent ==
    Accepted =>
        EmbeddedQuery(ret.value) =
            IF ContainsLimit(cypher_query) THEN cypher_query
            ELSE cypher_query \o limit_clause

\* a query with its own upper-case LIMIT clause was composed
C4_Witness ==
    /\ Accepted
    /\ ContainsLimit(cypher_query)
    /\ ~str_contains(cypher_query, limit_word)

\* C5 as stated: the query text embedded in every composed statement holds
\* exactly one whole-word limit keyword.
C5_ExactlyOneLimit ==
    Accepted => LimitTokenCount(EmbeddedQuery(ret.value)) = 1

\* C6 as stated: no composed statement holds a "$" followed by a word
\* character, for every graph name and query text.
C6_Original ==
    Accepted => ~ContainsDollarWord(ret.value)

\* C6 amended: a composed statement holds a "$" followed by a word character
\* exactly when the graph name does; the query text and the column
\* declarations never contribute one.
C6_NoPlaceholderOutsideGraphName ==
    Accepted => (ContainsDollarWord(ret.value) <=> ContainsDollarWord(graph_name))

\* a query holding a "$" that is no placeholder was composed for a clean graph name
C6_Witness ==
    /\ Accepted
    /\ ~ContainsDollarWord(graph_name)
    /\ \E i \in 1..Len(cypher_query) : cypher_query[i] = "$"

(***************************************************************************)
(* Vocabulary of the properties of DatabaseManager.                        *)
(***************************************************************************)
\* the text of a well-formed record (a JSON object)
IsRecordText(t) == \E doc \in JsonDocuments : doc.text = t /\ doc.value.type = "dict"
RecordOf(t) == (CHOOSE doc \in JsonDocuments : doc.text = t).value.d

\* the cell without exactly the suffix it ends with
ExactPayload(cell, suffix) == SubSeq(cell, 1, Len(cell) - Len(suffix))

IsVertexCell(cell) == str_endswith(cell, vertex_suffix)
IsEdgeCell(cell) == ~IsVertexCell(cell) /\ str_endswith(cell, edge_suffix)
WellFormedVertex(cell) ==
    IsVertexCell(cell) /\ IsRecordText(ExactPayload(cell, vertex_suffix))
WellFormedEdge(cell) ==
    IsEdgeCell(cell) /\ IsRecordText(ExactPayload(cell, edge_suffix))

FieldOf(rec, key) == IF key \in DOMAIN rec THEN rec[key] ELSE None

GraphNode(cell) ==
    LET P == RecordOf(ExactPayload(cell, vertex_suffix))
    IN  [id |-> FieldOf(P, "id"), label |-> FieldOf(P, "label"),
         properties |-> FieldOf(P, "properties")]

GraphEdge(cell) ==
    LET P == RecordOf(ExactPayload(cell, edge_suffix))
    IN  [id |-> FieldOf(P, "id"), label |-> FieldOf(P, "label"),
         source |-> FieldOf(P, "start_id"), target |-> FieldOf(P, "end_id"),
         properties |-> FieldOf(P, "properties")]

RECURSIVE IntendedNodes(_)
\* the nodes of the well-formed vertex cells, in order; every other cell gives none
IntendedNodes(cells) ==
    IF cells = <<>> THEN <<>>
    ELSE (IF WellFormedVertex(Head(cells)) THEN <<GraphNode(Head(cells))>> ELSE <<>>)
         \o IntendedNodes(Tail(cells))

RECURSIVE IntendedEdges(_)
IntendedEdges(cells) ==
    IF cells = <<>> THEN <<>>
    ELSE (IF WellFormedEdge(Head(cells)) THEN <<GraphEdge(Head(cells))>> ELSE <<>>)
         \o IntendedEdges(Tail(cells))

\* a suffixed cell whose payload is no well-formed record
Malformed(cell) ==
    /\ IsVertexCell(cell) \/ IsEdgeCell(cell)
    /\ ~WellFormedVertex(cell)
    /\ ~WellFormedEdge(cell)

RECURSIVE NodesLeavingMalformed(_)
\* as IntendedNodes, but a malformed cell gives what the decoder makes of it
NodesLeavingMalformed(cells) ==
    IF cells = <<>> THEN <<>>
    ELSE (IF WellFormedVertex(Head(cells)) THEN <<GraphNode(Head(cells))>>
          ELSE IF Malformed(Head(cells)) /\ decode_item(Head(cells)).kind = "node"
               THEN <<decode_item(Head(cells)).item>>
          ELSE <<>>)
         \o NodesLeavingMalformed(Tail(cells))

RECURSIVE EdgesLeavingMalformed(_)
EdgesLeavingMalformed(cells) ==
    IF cells = <<>> THEN <<>>
    ELSE (IF WellFormedEdge(Head(cells)) THEN <<GraphEdge(Head(cells))>>
          ELSE IF Malformed(Head(cells)) /\ decode_item(Head(cells)).kind = "edge"
               THEN <<decode_item(Head(cells)).item>>
          ELSE <<>>)
         \o EdgesLeavingMalformed(Tail(cells))

\* the decode loop of the last call was given rows
Decoded == op = "execute_query" /\ results # <<>>

ValidationErrors ==
    { ValueError("Unsafe query"), ValueError("Parameterized query"),
      ValueError("No return values specified") }

\* the label rows of graph number i of the catalog, in order
LabelRowsOf(i) ==
    SelectSeq(catalog.ag_label, LAMBDA r : r.graph = catalog.ag_graph[i].graphid)

Uncounted(label) == label.relation \notin DOMAIN RowCounts
SystemLabel(label) == label.name # <<>> /\ label.name[1] = "_"

\* the catalog entry holds, in the list of the label's kind, a summary of it
\* with the given count
Summarised(entry, label, count) ==
    LET list == IF label.kind = "v" THEN entry.nodes ELSE entry.edges
    IN  \E k \in 1..Len(list) :
            list[k] = [name |-> label.name, relation |-> label.relation, count |-> count]

Mentioned(entry, label) ==
    \/ \E k \in 1..Len(entry.nodes) : entry.nodes[k].name = label.name
    \/ \E k \in 1..Len(entry.edges) : entry.edges[k].name = label.name

(***************************************************************************)
(* Properties of DatabaseManager, checked under Spec.                      *)
(***************************************************************************)

\* C7 as stated: whatever rows the storage returns, the decode loop runs to
\* completion and execute_query returns a snapshot, in which every suffixed
\* cell whose payload is no well-formed record is skipped and every other cell
\* is decoded.
C7_DecodeCompletes ==
    Decoded =>
        /\ ret.kind = "return"
        /\ ret.value = [nodes |-> IntendedNodes(Concat(results)),
                        edges |-> IntendedEdges(Concat(results))]

\* C8: a cell that is a well-formed record P followed by exactly the vertex
\* (edge) suffix is parsed as P and gives one GraphNode (GraphEdge, with
\* source = start_id and target = end_id) of P's fields; a cell with neither
\* suffix gives nothing; a returned snapshot lists them in row, then column,
\* order and keeps duplicates.
C8_WellFormedCellsDecoded ==
    Decoded =>
        /\ \A i \in 1..Len(results) : \A j \in 1..Len(results[i]) :
            LET cell == results[i][j]
            IN  /\ WellFormedVertex(cell) =>
                      decode_item(cell) = [kind |-> "node", item |-> GraphNode(cell)]
                /\ WellFormedEdge(cell) =>
                      decode_item(cell) = [kind |-> "edge", item |-> GraphEdge(cell)]
                /\ (~IsVertexCell(cell) /\ ~IsEdgeCell(cell)) =>
                      decode_item(cell).kind = "ignore"
        /\ ret.kind = "return" =>
            /\ ret.value.nodes = NodesLeavingMalformed(Concat(results))
            /\ ret.value.edges = EdgesLeavingMalformed(Concat(results))

\* a snapshot with the same node twice, an edge, and a cell without suffix
C8_Witness ==
    /\ Decoded
    /\ ret.kind = "return"
    /\ \E i, j \in 1..Len(ret.value.nodes) : i < j /\ ret.value.nodes[i] = ret.value.nodes[j]
    /\ Len(ret.value.edges) >= 1
    /\ \E i \in 1..Len(results) : \E j \in 1..Len(results[i]) :
           ~IsVertexCell(results[i][j]) /\ ~IsEdgeCell(results[i][j])

\* C9: a call of execute_query that ends with the not-connected error or a
\* validation rejection, and a call of get_graph_info that ends with the
\* not-connected error, has taken no connection and sent no statement; without
\* a pool both end with the not-connected error, whatever the query is.
C9_ErrorsBeforeIO ==
    /\ (op = "execute_query" /\ ret \in ValidationErrors \cup {NotConnected})
           => (acquired = 0 /\ sent = <<>>)
    /\ (op = "get_graph_info" /\ ret = NotConnected) => (acquired = 0 /\ sent = <<>>)
    /\ (op \in {"execute_query", "get_graph_info"} /\ ~pool.present) => ret = NotConnected

\* an unsafe query sent without a pool ended with the not-connected error
C9_Witness ==
    /\ op = "execute_query"
    /\ ~pool.present
    /\ HasUnsafeToken(cypher_query)
    /\ ret = NotConnected

PartsOf(q) ==
    LET m == return_span(q)
        raw == IF m = <<>> THEN <<>> ELSE str_split_on(str_strip(m[1]), ",")
    IN  [i \in 1..Len(raw) |-> str_strip(raw[i])]

IsAliasWord(t) == str_lower(t) \in alias_words
IsStopToken(t) == str_lower(t) \in stop_words \/ t = <<"=">>

\* the least element of a set of positions, or dflt when there is none
LeastOr(I, dflt) == IF I = {} THEN dflt ELSE CHOOSE i \in I : \A j \in I : i <= j

FirstAlias(T) == LeastOr({i \in 1..Len(T) : IsAliasWord(T[i])}, Len(T) + 1)
FirstStop(T) == LeastOr({i \in 1..Len(T) : IsStopToken(T[i])}, Len(T) + 1)

\* the scan reaches an as/distinct token: the expect-alias flag gets set
FlagSet(T) == FirstAlias(T) < FirstStop(T)

\* the first token after the flag was set that is not itself as/distinct
AliasTarget(T) ==
    LeastOr({i \in (FirstAlias(T) + 1)..Len(T) : ~IsAliasWord(T[i])}, Len(T) + 1)

\* the token recorded last before position k, empty when there is none
LastBefore(T, k) == IF k > 1 THEN T[k - 1] ELSE <<>>

\* the candidate name of one part.  stated = TRUE: the token after the flag is
\* taken whatever it is; stated = FALSE: a stop word or "=" after the flag ends
\* the scan with the candidate recorded before
Candidate(T, stated) ==
    IF FlagSet(T) /\ AliasTarget(T) <= Len(T) /\ (stated \/ ~IsStopToken(T[AliasTarget(T)]))
    THEN T[AliasTarget(T)]
    ELSE IF FlagSet(T) THEN LastBefore(T, FirstAlias(T))
    ELSE LastBefore(T, FirstStop(T))

RECURSIVE ExpectedNames(_, _, _)
ExpectedNames(parts, i, stated) ==
    IF i > Len(parts) THEN <<>>
    ELSE post_process(Candidate(str_split(parts[i]), stated))
         \o ExpectedNames(parts, i + 1, stated)

Extracted == op = "extract_return_values"

(***************************************************************************)
(* Properties of extract_return_values, checked under SpecExtract and      *)
(* SpecFormat.                                                             *)
(***************************************************************************)

\* C11 as stated: in every return part, once as/distinct has set the
\* expect-alias flag, the next token that is not as/distinct becomes the
\* candidate name whatever it is, a stop word or "=" included.
C11_Original ==
    Extracted => ret.value = ExpectedNames(PartsOf(cypher_query), 1, TRUE)

\* C11 amended: once as/distinct has set the expect-alias flag, the next token
\* that is not as/distinct becomes the candidate name and ends the scan of the
\* part, unless it is a stop word or "=": such a token ends the scan with the
\* candidate recorded before it.  An alias wins over every earlier token.
C11_AliasUnlessStopWord ==
    Extracted => ret.value = ExpectedNames(PartsOf(cypher_query), 1, FALSE)

\* a part with an earlier token, an alias after AS, and the alias extracted
C11_Witness ==
    /\ Extracted
    /\ Len(PartsOf(cypher_query)) = 1
    /\ LET T == str_split(PartsOf(cypher_query)[1])
       IN  /\ FlagSet(T) /\ FirstAlias(T) > 1
           /\ AliasTarget(T) <= Len(T)
           /\ ~IsStopToken(T[AliasTarget(T)])
           /\ ret.value = <<T[AliasTarget(T)]>>
           /\ ret.value # post_process(T[1])

\* the position of the last letter of the first whole word "return" of q, in
\* any letter case
FirstReturnEnd(q) ==
    LeastOr({p \in 6..Len(q) :
                /\ str_lower(SubSeq(q, p - 5, p)) = return_word
                /\ (p = 6 \/ ~IsWord(q[p - 6]))
                /\ (p = Len(q) \/ ~IsWord(q[p + 1]))}, 0)

\* all the text after the first whole word "return", up to the end of q
SpanToEnd(q) == SubSeq(q, FirstReturnEnd(q) + 1, Len(q))

\* the identifiers derived from a return span
NamesOfSpan(span) ==
    LET raw == str_split_on(str_strip(span), ",")
    IN  collect_parts([i \in 1..Len(raw) |-> str_strip(raw[i])], 1)

\* C12 as stated: for every query text, single-line or multi-line, holding the
\* whole word return, extract_return_values derives its identifiers from all
\* the text after the first such word up to the end of the text; without the
\* word the result is empty.
C12_SpanToEndOfText ==
    Extracted =>
        ret.value = IF HasReturnWord(cypher_query)
                    THEN NamesOfSpan(SpanToEnd(cypher_query))
                    ELSE <<>>

\* the column declarations of a composed statement: the comma-separated pieces
\* of what stands between the last " $$) AS (" and the closing ");"
DeclaredColumns(stmt) ==
    LET closes == {i \in 1..(Len(stmt) - Len(stmt_close) + 1) :
                      SubSeq(stmt, i, i + Len(stmt_close) - 1) = stmt_close}
        last == CHOOSE i \in closes : \A j \in closes : j <= i
    IN  str_split_on(SubSeq(stmt, last + Len(stmt_close), Len(stmt) - Len(stmt_end)), ",")

\* a column declaration with a name in front of its type
NamedColumn(decl) == Len(str_split(decl)) = 2

\* C13 as stated: every identifier returned by extract_return_values is a
\* non-empty string, and every column declared in a statement returned by
\* format_query has a non-empty name.
C13_NamesNonEmpty ==
    /\ Extracted => \A i \in 1..Len(ret.value) : ret.value[i] # <<>>
    /\ Accepted =>
           \A i \in 1..Len(DeclaredColumns(ret.value)) :
               NamedColumn(DeclaredColumns(ret.value)[i])

(***************************************************************************)
(* Properties of DatabaseManager.connect, checked under Spec.              *)
(***************************************************************************)
\* a step that is a connect call ending with an exception
ConnectRaises == op' = "connect" /\ ret'.kind = "raise"

\* connection_status has reported "connected"
ReportsConnected == op = "connection_status" /\ ret.value.status = "connected"

\* C14 as stated: a connect call that raises leaves the pool and the saved
\* connection_info as they were before the call, and connection_status reports
\* "connected" only when the held pool belongs to a connect that succeeded with
\* the reported connection_info.
C14_PoolAndInfoChangeTogether ==
    /\ [][ConnectRaises => (pool' = pool /\ connection_info' = connection_info)]_vars
    /\ [](ReportsConnected =>
            (pool.up /\ pool.conninfo = conn_str(ret.value.connection_info)))

====
